---- MODULE Spec2Model ----
(***************************************************************************)
(* TresoldSeg: the widget / parameter-node binding, the validity gate of   *)
(* the Apply button and the gated call of the threshold CLI module.        *)
(* Source: src/TresoldSeg/TresoldSeg.py                                    *)
(***************************************************************************)
EXTENDS Integers, FiniteSets, Sequences, TLC

\* ---------------------------------------------------------------- bounds
\* number of scalar volume nodes a selector can offer
MaxVolumes == 1
\* CLI tracking nodes that may pile up in the scene before process is no longer called
MaxCliNodes == 1

\* ------------------------------------------------------ program constants
None == 0
RangeMin == -100
RangeMax == 500
DefaultLower == 0
DefaultUpper == 100
SliderOffset == 100

TipReady == "Compute output volume"
TipBlocked == "Select input and output volume nodes"

Volumes == 1..MaxVolumes
Handles == {None} \cup Volumes
\* values a slider is moved to: one whose +100 stays in range, one whose +100 leaves it
SliderValues == {DefaultLower, RangeMax - 50}
\* threshold values a direct caller of process passes
ProcessValues == {RangeMin, DefaultLower, DefaultUpper, RangeMax}

\* ------------------------------------------------------------------ state
VARIABLES
    setupDone,            \* setup() has run: self.ui and self.logic exist
    isEntered,            \* self.parent.isEntered
    closing,              \* the scene is between StartCloseEvent and EndCloseEvent
    destroyed,            \* cleanup() has run
    pn,                   \* the scene's singleton parameter node (TresoldSegParameterNode fields)
    ui,                   \* the controls of self.ui
    parameterNode,        \* self._parameterNode
    parameterNodeGuiTag,  \* self._parameterNodeGuiTag
    guiConnections,       \* tags of the GUI connections active on the parameter node
    observers,            \* observations held by the widget (VTKObservationMixin)
    cliNodes,             \* CLI tracking nodes present in the scene
    running,              \* process() is inside slicer.cli.run(..., wait_for_completion=True)
    last                  \* what the last handler did (request sent, exception raised, ...)

vars == <<setupDone, isEntered, closing, destroyed, pn, ui, parameterNode,
          parameterNodeGuiTag, guiConnections, observers, cliNodes, running, last>>

\* the object logic.getParameterNode() hands out: a wrapper of the scene's singleton node
getParameterNode == 1

TresoldSegParameterNode ==
    [inputVolume |-> None, thresholdedVolume |-> None,
     lowerThreshold |-> DefaultLower, upperThreshold |-> DefaultUpper,
     invertThreshold |-> FALSE]

\* WithinRange(-100, 500): an assignment outside the range raises ValueError
WithinRange(v) == RangeMin <= v /\ v <= RangeMax

Ranged == {"lowerThreshold", "upperThreshold"}

\* the controls loaded from the .ui file, before anything is pushed into them
LoadUI(t) ==
    [inputSelector |-> None, outputSelector |-> None,
     lowerThresholdSlider |-> DefaultLower, upperThresholdSlider |-> DefaultLower,
     thresholdSlider |-> t, invertOutputCheckBox |-> FALSE,
     applyEnabled |-> FALSE, applyToolTip |-> ""]

\* controls that connectGui binds to a parameter, and the parameter of each
BoundControls ==
    <<"inputSelector", "outputSelector", "lowerThresholdSlider",
      "upperThresholdSlider", "invertOutputCheckBox">>

ParamOf ==
    [inputSelector |-> "inputVolume", outputSelector |-> "thresholdedVolume",
     lowerThresholdSlider |-> "lowerThreshold", upperThresholdSlider |-> "upperThreshold",
     invertOutputCheckBox |-> "invertThreshold"]

IsBound(c) == \E i \in 1..Len(BoundControls) : BoundControls[i] = c

\* The world a handler runs in: the state plus what the handler has done so far.
World ==
    [pn |-> pn, ui |-> ui, parameterNode |-> parameterNode,
     parameterNodeGuiTag |-> parameterNodeGuiTag, guiConnections |-> guiConnections,
     observers |-> observers, raised |-> "none", gateCalls |-> 0, events |-> 0,
     connects |-> 0, connectsOverActive |-> 0, disconnects |-> 0, staleDisconnects |-> 0]

\* ------------------------------------------------------------- the gate
\* variant: the output volume is not looked at
checkCanApply_IgnoresOutput(w) ==
    IF w.parameterNode # None /\ w.pn.inputVolume # None
    THEN [w EXCEPT !.ui.applyToolTip = TipReady, !.ui.applyEnabled = TRUE,
                   !.gateCalls = @ + 1]
    ELSE [w EXCEPT !.ui.applyToolTip = TipBlocked, !.ui.applyEnabled = FALSE,
                   !.gateCalls = @ + 1]

checkCanApply(w) ==
    IF w.parameterNode # None /\ w.pn.inputVolume # None /\ w.pn.thresholdedVolume # None
    THEN [w EXCEPT !.ui.applyToolTip = TipReady, !.ui.applyEnabled = TRUE,
                   !.gateCalls = @ + 1]
    ELSE [w EXCEPT !.ui.applyToolTip = TipBlocked, !.ui.applyEnabled = FALSE,
                   !.gateCalls = @ + 1]

\* ------------------------------------------- parameter writes and signals
RECURSIVE SetParam(_, _, _)

onLowerThresholdChanged(w, value) ==
    IF w.parameterNode # None THEN SetParam(w, "lowerThreshold", value) ELSE w

onUpperThresholdChanged(w, value) ==
    IF w.parameterNode # None THEN SetParam(w, "upperThreshold", value) ELSE w

onThresholdSliderChanged(w, value) ==
    IF w.parameterNode # None
    THEN LET w1 == SetParam(w, "lowerThreshold", value)
         IN IF w1.raised # "none" THEN w1
            ELSE SetParam(w1, "upperThreshold", value + SliderOffset)
    ELSE w

\* a control takes the value v; valueChanged fires only when the value changes.
\* Slots run in connection order: the widget's handler (setup), then the GUI
\* connection's write-back (connectGui).
SetControl(w, c, v) ==
    IF w.ui[c] = v THEN w
    ELSE LET w1 == [w EXCEPT !.ui[c] = v]
             w2 == CASE c = "lowerThresholdSlider" -> onLowerThresholdChanged(w1, v)
                     [] c = "upperThresholdSlider" -> onUpperThresholdChanged(w1, v)
                     [] c = "thresholdSlider" -> onThresholdSliderChanged(w1, v)
                     [] OTHER -> w1
         IN IF IsBound(c) /\ w2.guiConnections # {}
            THEN SetParam(w2, ParamOf[c], v)
            ELSE w2

RECURSIVE PushAll(_, _)
PushAll(w, i) ==
    IF i > Len(BoundControls) THEN w
    ELSE PushAll(SetControl(w, BoundControls[i], w.pn[ParamOf[BoundControls[i]]]), i + 1)

\* the GUI connection's update of the controls from the parameter node
updateGuiFromParameterNode(w) == PushAll(w, 1)

\* variant: the GUI connection does not follow a change of the node
Modified_NoGuiUpdate(w) ==
    LET w0 == [w EXCEPT !.events = @ + 1]
    IN IF "ModifiedEvent" \in w0.observers THEN checkCanApply(w0) ELSE w0

\* ModifiedEvent of the parameter node: observers run in registration order,
\* the GUI connection (connectGui) before the gate (addObserver)
Modified(w) ==
    LET w0 == [w EXCEPT !.events = @ + 1]
        w1 == IF w0.guiConnections # {} THEN updateGuiFromParameterNode(w0) ELSE w0
    IN IF "ModifiedEvent" \in w1.observers THEN checkCanApply(w1) ELSE w1

\* variant: a write of the value already stored raises ModifiedEvent all the same
SetParam_AlwaysNotifies(w, f, v) ==
    IF f \in Ranged /\ ~WithinRange(v) THEN [w EXCEPT !.raised = "ValueError"]
    ELSE Modified([w EXCEPT !.pn[f] = v])

\* parameterNode.<f> = v
SetParam(w, f, v) ==
    IF f \in Ranged /\ ~WithinRange(v) THEN [w EXCEPT !.raised = "ValueError"]
    ELSE IF w.pn[f] = v THEN w
    ELSE Modified([w EXCEPT !.pn[f] = v])

\* ---------------------------------------------- binding and observations
NewTag(w) == CHOOSE t \in 1..(Cardinality(w.guiConnections) + 1) : t \notin w.guiConnections

\* connectGui: a new connection on the node, the controls updated from the node;
\* the tag is what the caller stores in _parameterNodeGuiTag
connectGui(w) ==
    updateGuiFromParameterNode(
        [w EXCEPT !.guiConnections = @ \cup {NewTag(w)}, !.parameterNodeGuiTag = NewTag(w),
                  !.connects = @ + 1,
                  !.connectsOverActive = @ + (IF w.guiConnections # {} THEN 1 ELSE 0)])

\* disconnectGui(tag): the connection of that tag goes; a tag that names no
\* active connection (None, or one already disconnected) changes nothing
disconnectGui(w, tag) ==
    IF tag \in w.guiConnections
    THEN [w EXCEPT !.guiConnections = @ \ {tag}, !.disconnects = @ + 1]
    ELSE [w EXCEPT !.staleDisconnects = @ + 1]

addObserver(w, e) == [w EXCEPT !.observers = @ \cup {e}]

removeObserver(w, e) == [w EXCEPT !.observers = @ \ {e}]

removeObservers(w) == [w EXCEPT !.observers = {}]

\* ----------------------------------------------------- widget lifecycle
\* variant: the old connection is not disconnected before the new one is made
setParameterNode_NoDisconnect(w, inputParameterNode) ==
    LET w1 == IF w.parameterNode # None THEN removeObserver(w, "ModifiedEvent") ELSE w
        w2 == [w1 EXCEPT !.parameterNode = inputParameterNode]
    IN IF w2.parameterNode # None
       THEN checkCanApply(addObserver(connectGui(w2), "ModifiedEvent"))
       ELSE w2

\* variant: the gate's observer is not removed from the old parameter node
setParameterNode_KeepsObserver(w, inputParameterNode) ==
    LET w1 == IF w.parameterNode # None
              THEN disconnectGui(w, w.parameterNodeGuiTag)
              ELSE w
        w2 == [w1 EXCEPT !.parameterNode = inputParameterNode]
    IN IF w2.parameterNode # None
       THEN checkCanApply(addObserver(connectGui(w2), "ModifiedEvent"))
       ELSE w2

setParameterNode(w, inputParameterNode) ==
    LET w1 == IF w.parameterNode # None
              THEN removeObserver(disconnectGui(w, w.parameterNodeGuiTag), "ModifiedEvent")
              ELSE w
        w2 == [w1 EXCEPT !.parameterNode = inputParameterNode]
    IN IF w2.parameterNode # None
       THEN checkCanApply(addObserver(connectGui(w2), "ModifiedEvent"))
       ELSE w2

initializeParameterNode(w) ==
    LET w1 == setParameterNode(w, getParameterNode)
    IN IF w1.parameterNode # None
       THEN LET w2 == SetControl(w1, "lowerThresholdSlider", w1.pn.lowerThreshold)
            IN SetControl(w2, "upperThresholdSlider", w2.pn.upperThreshold)
       ELSE w1

setup(w) ==
    initializeParameterNode(addObserver(addObserver(w, "StartCloseEvent"), "EndCloseEvent"))

cleanup(w) == removeObservers(w)

enter(w) == initializeParameterNode(w)

exit(w) ==
    IF w.parameterNode # None
    THEN removeObserver(
             [disconnectGui(w, w.parameterNodeGuiTag) EXCEPT !.parameterNodeGuiTag = None],
             "ModifiedEvent")
    ELSE w

onSceneStartClose(w) == setParameterNode(w, None)

\* variant: clear-end re-attaches whether or not the view is entered
onSceneEndClose_Always(w, entered) == initializeParameterNode(w)

onSceneEndClose(w, entered) == IF entered THEN initializeParameterNode(w) ELSE w

\* ------------------------------------------------------------ the logic
NoRequest ==
    [sent |-> FALSE, InputVolume |-> None, OutputVolume |-> None,
     LowerThreshold |-> 0, UpperThreshold |-> 0, ThresholdType |-> "none"]

EngineOutcomes == {"completed", "completedWithErrors", "raisedBeforeNode", "raisedAfterNode"}

\* variant: the two threshold modes swapped
cliParams_ModesSwapped(inputVolume, outputVolume, lowerThreshold, upperThreshold, invert) ==
    [sent |-> TRUE, InputVolume |-> inputVolume, OutputVolume |-> outputVolume,
     LowerThreshold |-> lowerThreshold, UpperThreshold |-> upperThreshold,
     ThresholdType |-> IF invert THEN "Between" ELSE "Outside"]

\* lines 179-185: the request handed to slicer.cli.run
cliParams(inputVolume, outputVolume, lowerThreshold, upperThreshold, invert) ==
    [sent |-> TRUE, InputVolume |-> inputVolume, OutputVolume |-> outputVolume,
     LowerThreshold |-> lowerThreshold, UpperThreshold |-> upperThreshold,
     ThresholdType |-> IF ~invert THEN "Between" ELSE "Outside"]

\* lines 186-191: slicer.cli.run(..., wait_for_completion=True) and what follows it.
\* run returns the CLI node whether the module completed or completed with errors;
\* when run raises, the lines after it are not executed.
runAndRemove(request, outcome) ==
    CASE outcome \in {"completed", "completedWithErrors"} ->
           [raised |-> "none", request |-> request, engine |-> outcome,
            created |-> 1, removed |-> 1, completedLogged |-> TRUE]
      [] outcome = "raisedAfterNode" ->
           [raised |-> "EngineError", request |-> request, engine |-> outcome,
            created |-> 1, removed |-> 0, completedLogged |-> FALSE]
      [] OTHER ->
           [raised |-> "EngineError", request |-> request, engine |-> outcome,
            created |-> 0, removed |-> 0, completedLogged |-> FALSE]

\* variant: only the input volume is checked before the engine is called
process_ChecksInputOnly(inputVolume, outputVolume, lowerThreshold, upperThreshold, invert, outcome) ==
    IF inputVolume = None
    THEN [raised |-> "ValueError", request |-> NoRequest, engine |-> "notCalled",
          created |-> 0, removed |-> 0, completedLogged |-> FALSE]
    ELSE runAndRemove(
             cliParams(inputVolume, outputVolume, lowerThreshold, upperThreshold, invert),
             outcome)

\* process(): what it raises, the request, the outcome of the run, and the CLI
\* nodes it creates and removes
process(inputVolume, outputVolume, lowerThreshold, upperThreshold, invert, outcome) ==
    IF inputVolume = None \/ outputVolume = None
    THEN [raised |-> "ValueError", request |-> NoRequest, engine |-> "notCalled",
          created |-> 0, removed |-> 0, completedLogged |-> FALSE]
    ELSE runAndRemove(
             cliParams(inputVolume, outputVolume, lowerThreshold, upperThreshold, invert),
             outcome)

\* test_TresoldSeg1: the values it passes. Python's True and False are the
\* integers 1 and 0.
threshold == 100
PyTrue == 1
PyFalse == 0

\* line 219: logic.process(inputVolume, outputVolume, threshold, True); the fourth
\* positional parameter is upperThreshold, invert keeps its default False
test_TresoldSeg1_first(inputVolume, outputVolume, outcome) ==
    process(inputVolume, outputVolume, threshold, PyTrue, FALSE, outcome)

\* line 224: logic.process(inputVolume, outputVolume, threshold, False)
test_TresoldSeg1_second(inputVolume, outputVolume, outcome) ==
    process(inputVolume, outputVolume, threshold, PyFalse, FALSE, outcome)

\* onApplyButton: process() on the controls' values inside tryWithErrorDisplay
onApplyButton(w, outcome) ==
    process(w.ui.inputSelector, w.ui.outputSelector, w.ui.lowerThresholdSlider,
            w.ui.upperThresholdSlider, w.ui.invertOutputCheckBox, outcome)

\* ------------------------------------------------------------- actions
NoCall ==
    [raised |-> "none", request |-> NoRequest, engine |-> "notCalled",
     created |-> 0, removed |-> 0, completedLogged |-> FALSE]

NoArgs ==
    [inputVolume |-> None, outputVolume |-> None, lowerThreshold |-> 0,
     upperThreshold |-> 0, invert |-> FALSE]

ApplyArgs(w) ==
    [inputVolume |-> w.ui.inputSelector, outputVolume |-> w.ui.outputSelector,
     lowerThreshold |-> w.ui.lowerThresholdSlider,
     upperThreshold |-> w.ui.upperThresholdSlider, invert |-> w.ui.invertOutputCheckBox]

\* the record of a handler run: w is the world it left, call what process did
LastOf(op, w, call, args) ==
    [op |-> op, raised |-> IF call.engine = "notCalled" /\ call.raised = "none"
                           THEN w.raised ELSE call.raised,
     args |-> args, request |-> call.request, engine |-> call.engine,
     created |-> call.created, removed |-> call.removed,
     completedLogged |-> call.completedLogged,
     errorDisplayed |-> (op = "onApplyButton" /\ call.raised # "none"),
     gateCalls |-> w.gateCalls, events |-> w.events, connects |-> w.connects,
     connectsOverActive |-> w.connectsOverActive, disconnects |-> w.disconnects,
     staleDisconnects |-> w.staleDisconnects]

Last(op, w, call) == LastOf(op, w, call, NoArgs)

Commit(w) ==
    /\ pn' = w.pn
    /\ ui' = w.ui
    /\ parameterNode' = w.parameterNode
    /\ parameterNodeGuiTag' = w.parameterNodeGuiTag
    /\ guiConnections' = w.guiConnections
    /\ observers' = w.observers

\* the widget exists, the scene is not being cleared and the main thread is not
\* blocked inside a run: a handler can be called
Alive == setupDone /\ ~destroyed /\ ~closing /\ ~running

Init ==
    /\ setupDone = FALSE
    /\ isEntered = FALSE
    /\ closing = FALSE
    /\ destroyed = FALSE
    /\ pn = TresoldSegParameterNode
    /\ ui = LoadUI(DefaultLower)
    /\ parameterNode = None
    /\ parameterNodeGuiTag = None
    /\ guiConnections = {}
    /\ observers = {}
    /\ cliNodes = 0
    /\ running = FALSE
    /\ last = Last("init", World, NoCall)

Setup ==
    /\ ~setupDone /\ ~destroyed
    /\ \E w \in {setup([World EXCEPT !.ui = LoadUI(DefaultLower)])} :
          Commit(w) /\ last' = Last("setup", w, NoCall)
    /\ setupDone' = TRUE
    /\ UNCHANGED <<isEntered, closing, destroyed, cliNodes, running>>

Enter ==
    /\ Alive
    /\ \E w \in {enter(World)} : Commit(w) /\ last' = Last("enter", w, NoCall)
    /\ isEntered' = TRUE
    /\ UNCHANGED <<setupDone, closing, destroyed, cliNodes, running>>

Exit ==
    /\ Alive /\ isEntered
    /\ \E w \in {exit(World)} : Commit(w) /\ last' = Last("exit", w, NoCall)
    /\ isEntered' = FALSE
    /\ UNCHANGED <<setupDone, closing, destroyed, cliNodes, running>>

Cleanup ==
    /\ Alive
    /\ \E w \in {cleanup(World)} : Commit(w) /\ last' = Last("cleanup", w, NoCall)
    /\ destroyed' = TRUE
    /\ UNCHANGED <<setupDone, isEntered, closing, cliNodes, running>>

\* mrmlScene.Clear(): StartCloseEvent, then the nodes go, then EndCloseEvent
SceneStartClose ==
    /\ Alive
    /\ \E w \in {IF "StartCloseEvent" \in observers THEN onSceneStartClose(World) ELSE World} :
          Commit(w) /\ last' = Last("onSceneStartClose", w, NoCall)
    /\ closing' = TRUE
    /\ UNCHANGED <<setupDone, isEntered, destroyed, cliNodes, running>>

SceneEndClose ==
    /\ setupDone /\ ~destroyed /\ closing
    /\ LET gone == [World EXCEPT !.pn = TresoldSegParameterNode, !.guiConnections = {}]
           w1 == SetControl(SetControl(gone, "inputSelector", None), "outputSelector", None)
       IN \E w \in {IF "EndCloseEvent" \in observers
                      THEN onSceneEndClose(w1, isEntered) ELSE w1} :
             Commit(w) /\ last' = Last("onSceneEndClose", w, NoCall)
    /\ closing' = FALSE
    /\ cliNodes' = 0
    /\ UNCHANGED <<setupDone, isEntered, destroyed, running>>

\* the user (or a script) changes a control
EditControl ==
    /\ Alive
    /\ \E c \in {"lowerThresholdSlider", "upperThresholdSlider", "thresholdSlider"} :
         \E v \in SliderValues :
           /\ ui[c] # v
           /\ \E w \in {SetControl(World, c, v)} : Commit(w) /\ last' = Last(c, w, NoCall)
    /\ UNCHANGED <<setupDone, isEntered, closing, destroyed, cliNodes, running>>

SelectNode ==
    /\ Alive
    /\ \E c \in {"inputSelector", "outputSelector"} : \E h \in Handles :
         /\ ui[c] # h
         /\ \E w \in {SetControl(World, c, h)} : Commit(w) /\ last' = Last(c, w, NoCall)
    /\ UNCHANGED <<setupDone, isEntered, closing, destroyed, cliNodes, running>>

ToggleInvert ==
    /\ Alive
    /\ \E w \in {SetControl(World, "invertOutputCheckBox", ~ui.invertOutputCheckBox)} :
          Commit(w) /\ last' = Last("invertOutputCheckBox", w, NoCall)
    /\ UNCHANGED <<setupDone, isEntered, closing, destroyed, cliNodes, running>>

\* another party writes a handle of the parameter node
WriteNode ==
    /\ Alive
    /\ \E f \in {"inputVolume", "thresholdedVolume"} : \E h \in Handles :
         /\ pn[f] # h
         /\ \E w \in {SetParam(World, f, h)} : Commit(w) /\ last' = Last(f, w, NoCall)
    /\ UNCHANGED <<setupDone, isEntered, closing, destroyed, cliNodes, running>>

ApplyClicked ==
    /\ Alive /\ ui.applyEnabled /\ cliNodes < MaxCliNodes
    /\ \E outcome \in EngineOutcomes :
         \E call \in {onApplyButton(World, outcome)} :
            /\ cliNodes' = cliNodes + call.created - call.removed
            /\ last' = LastOf("onApplyButton", World, call, ApplyArgs(World))
    /\ UNCHANGED <<setupDone, isEntered, closing, destroyed, pn, ui, parameterNode,
                   parameterNodeGuiTag, guiConnections, observers, running>>

\* a caller of the logic other than the widget (as the self test does)
ProcessCalled ==
    /\ cliNodes < MaxCliNodes
    /\ \E i \in Handles, o \in Handles, lo \in ProcessValues, up \in ProcessValues,
          inv \in BOOLEAN, outcome \in EngineOutcomes :
         \E call \in {process(i, o, lo, up, inv, outcome)} :
            /\ cliNodes' = cliNodes + call.created - call.removed
            /\ last' = LastOf("process", World, call,
                    [inputVolume |-> i, outputVolume |-> o, lowerThreshold |-> lo,
                     upperThreshold |-> up, invert |-> inv])
    /\ UNCHANGED <<setupDone, isEntered, closing, destroyed, pn, ui, parameterNode,
                   parameterNodeGuiTag, guiConnections, observers, running>>

Next ==
    \/ Setup
    \/ Enter
    \/ Exit
    \/ Cleanup
    \/ SceneStartClose
    \/ SceneEndClose
    \/ EditControl
    \/ SelectNode
    \/ ToggleInvert
    \/ WriteNode
    \/ ApplyClicked

Spec == Init /\ [][Next]_vars

\* onApplyButton in two steps, to look at the widget while the engine runs:
\* the click up to the call of slicer.cli.run (lines 146-186) ...
ApplyStarted ==
    /\ Alive /\ ui.applyEnabled /\ cliNodes < MaxCliNodes
    /\ ui.inputSelector # None /\ ui.outputSelector # None
    /\ running' = TRUE
    /\ last' = LastOf("onApplyButton", World,
                      [NoCall EXCEPT !.engine = "running",
                                     !.request = cliParams(ui.inputSelector, ui.outputSelector,
                                                           ui.lowerThresholdSlider,
                                                           ui.upperThresholdSlider,
                                                           ui.invertOutputCheckBox)],
                      ApplyArgs(World))
    /\ UNCHANGED <<setupDone, isEntered, closing, destroyed, pn, ui, parameterNode,
                   parameterNodeGuiTag, guiConnections, observers, cliNodes>>

\* ... the click that process() rejects before the engine (lines 171-172) ...
ApplyRejected ==
    /\ Alive /\ ui.applyEnabled
    /\ ui.inputSelector = None \/ ui.outputSelector = None
    /\ \E call \in {onApplyButton(World, "completed")} :
          last' = LastOf("onApplyButton", World, call, ApplyArgs(World))
    /\ UNCHANGED <<setupDone, isEntered, closing, destroyed, pn, ui, parameterNode,
                   parameterNodeGuiTag, guiConnections, observers, cliNodes, running>>

\* ... and the return of slicer.cli.run with what follows it (lines 186-191).
\* wait_for_completion=True blocks the main thread, so no handler runs in between
\* and the controls are those the click read.
RunFinished ==
    /\ running
    /\ \E outcome \in EngineOutcomes :
         \E call \in {onApplyButton(World, outcome)} :
            /\ cliNodes' = cliNodes + call.created - call.removed
            /\ last' = LastOf("onApplyButton", World, call, ApplyArgs(World))
    /\ running' = FALSE
    /\ UNCHANGED <<setupDone, isEntered, closing, destroyed, pn, ui, parameterNode,
                   parameterNodeGuiTag, guiConnections, observers>>

NextRun ==
    \/ Setup
    \/ Enter
    \/ Exit
    \/ Cleanup
    \/ SceneStartClose
    \/ SceneEndClose
    \/ EditControl
    \/ SelectNode
    \/ ToggleInvert
    \/ WriteNode
    \/ ApplyStarted
    \/ ApplyRejected
    \/ RunFinished

SpecRun == Init /\ [][NextRun]_vars

\* the self test, run in the application: setUp() has cleared the scene (or no
\* widget exists yet), then the first call of process() ...
TestFirstCall ==
    /\ ~closing /\ ~running /\ cliNodes < MaxCliNodes
    /\ last.op \in {"init", "onSceneEndClose"}
    /\ \E i \in Volumes, o \in Volumes, outcome \in EngineOutcomes :
         \E call \in {test_TresoldSeg1_first(i, o, outcome)} :
            /\ cliNodes' = cliNodes + call.created - call.removed
            /\ last' = LastOf("test_TresoldSeg1:first", World, call,
                    [inputVolume |-> i, outputVolume |-> o, lowerThreshold |-> threshold,
                     upperThreshold |-> PyTrue, invert |-> FALSE])
    /\ UNCHANGED <<setupDone, isEntered, closing, destroyed, pn, ui, parameterNode,
                   parameterNodeGuiTag, guiConnections, observers, running>>

\* ... and, when the first call returned, the second one on the same volumes
TestSecondCall ==
    /\ last.op = "test_TresoldSeg1:first" /\ last.raised = "none"
    /\ cliNodes < MaxCliNodes
    /\ \E outcome \in EngineOutcomes :
         \E call \in {test_TresoldSeg1_second(last.args.inputVolume,
                                              last.args.outputVolume, outcome)} :
            /\ cliNodes' = cliNodes + call.created - call.removed
            /\ last' = LastOf("test_TresoldSeg1:second", World, call,
                    [last.args EXCEPT !.upperThreshold = PyFalse])
    /\ UNCHANGED <<setupDone, isEntered, closing, destroyed, pn, ui, parameterNode,
                   parameterNodeGuiTag, guiConnections, observers, running>>

NextTest ==
    \/ Setup
    \/ Enter
    \/ Exit
    \/ Cleanup
    \/ SceneStartClose
    \/ SceneEndClose
    \/ EditControl
    \/ SelectNode
    \/ ToggleInvert
    \/ WriteNode
    \/ ApplyClicked
    \/ TestFirstCall
    \/ TestSecondCall

SpecTest == Init /\ [][NextTest]_vars

\* the gate on its own: any parameter node (or none), any state of the button
InitGate ==
    /\ setupDone = TRUE
    /\ isEntered \in BOOLEAN
    /\ closing = FALSE
    /\ destroyed = FALSE
    /\ \E i \in Handles, o \in Handles, lo \in SliderValues, inv \in BOOLEAN :
         pn = [TresoldSegParameterNode EXCEPT !.inputVolume = i, !.thresholdedVolume = o,
                                              !.lowerThreshold = lo, !.invertThreshold = inv]
    /\ \E e \in BOOLEAN, t \in {"", TipReady, TipBlocked} :
         ui = [LoadUI(DefaultLower) EXCEPT !.applyEnabled = e, !.applyToolTip = t]
    /\ parameterNode \in {None, getParameterNode}
    /\ parameterNodeGuiTag = None
    /\ guiConnections = {}
    /\ observers = {}
    /\ cliNodes = 0
    /\ running = FALSE
    /\ last = Last("init", World, NoCall)

CheckCanApplyCalled ==
    /\ \E w \in {checkCanApply(World)} :
          Commit(w) /\ last' = Last("_checkCanApply", w, NoCall)
    /\ UNCHANGED <<setupDone, isEntered, closing, destroyed, cliNodes, running>>

NextGate == CheckCanApplyCalled

SpecGate == InitGate /\ [][NextGate]_vars

\* the logic on its own: any caller, any arguments
NextLogic == ProcessCalled

SpecLogic == Init /\ [][NextLogic]_vars

\* ------------------------------------------------------------ the claims
Ready == parameterNode # None /\ pn.inputVolume # None /\ pn.thresholdedVolume # None

SliderControls == {"lowerThresholdSlider", "upperThresholdSlider", "thresholdSlider"}

\* C1 (SpecGate): whenever _checkCanApply has run, the Apply button is enabled with
\* the tooltip "Compute output volume" exactly when a parameter node is held and
\* both its inputVolume and thresholdedVolume are set; in every other combination
\* it is disabled with the tooltip "Select input and output volume nodes".
C1_GateReadyIffNodeAndBothHandles ==
    last.op = "_checkCanApply" =>
        /\ ui.applyEnabled = Ready
        /\ ui.applyToolTip = IF Ready THEN TipReady ELSE TipBlocked

\* C1 witness: the gate ran with both handles set but no parameter node, and blocked
C1_Witness ==
    /\ last.op = "_checkCanApply"
    /\ parameterNode = None /\ pn.inputVolume # None /\ pn.thresholdedVolume # None
    /\ ~ui.applyEnabled /\ ui.applyToolTip = TipBlocked

\* C2 (Spec), as claimed: after every fully handled event the Apply button's enabled
\* flag equals "a parameter node is held and both its handles are set".
C2_ApplyEnabledEqualsGate == setupDone => (ui.applyEnabled = Ready)

\* C3 (SpecLogic): a process call with the input or the output handle unset raises
\* ValueError, hands no request to the engine and creates no CLI node.
C3_UnsetHandleRaisesBeforeEngine ==
    (last.op = "process" /\ (last.args.inputVolume = None \/ last.args.outputVolume = None)) =>
        /\ last.raised = "ValueError"
        /\ ~last.request.sent
        /\ last.engine = "notCalled"
        /\ last.created = 0

\* C3 witness: process was called with an input but no output, and raised
C3_Witness ==
    /\ last.op = "process"
    /\ last.args.inputVolume # None /\ last.args.outputVolume = None
    /\ last.raised = "ValueError"

\* C4 (SpecLogic): every request that reaches the engine has mode Between when
\* invert is false and Outside when invert is true, and carries exactly the lower
\* and upper thresholds that were passed in.
C4_ModeFollowsInvertThresholdsUnchanged ==
    (last.op = "process" /\ last.request.sent) =>
        /\ last.request.ThresholdType = IF last.args.invert THEN "Outside" ELSE "Between"
        /\ last.request.LowerThreshold = last.args.lowerThreshold
        /\ last.request.UpperThreshold = last.args.upperThreshold

\* C4 witness: an inverted call reached the engine as Outside
C4_Witness ==
    /\ last.op = "process" /\ last.request.sent /\ last.args.invert
    /\ last.request.ThresholdType = "Outside"
    /\ last.args.lowerThreshold # last.args.upperThreshold

\* C5 (Spec), as claimed: every invocation started by the Apply action, with a
\* parameter node held by the widget, sends the engine a request whose handles,
\* thresholds and mode equal the values of that parameter node at the click.
C5_ApplyRequestEqualsModel ==
    (last.op = "onApplyButton" /\ parameterNode # None) =>
        /\ last.request.sent
        /\ last.request.InputVolume = pn.inputVolume
        /\ last.request.OutputVolume = pn.thresholdedVolume
        /\ last.request.LowerThreshold = pn.lowerThreshold
        /\ last.request.UpperThreshold = pn.upperThreshold
        /\ last.request.ThresholdType = IF pn.invertThreshold THEN "Outside" ELSE "Between"

\* C6 (SpecLogic), as claimed: once a process call has returned or raised, no CLI
\* tracking node remains in the scene.
C6_NoCliNodeRemains == cliNodes = 0

\* C7 (Spec), as claimed: a run in which the engine failed or raised ends with an
\* exception raised to the caller of process (shown to the user by the Apply
\* action), never with the completion being logged.
C7_EngineFailurePropagates ==
    last.engine \in {"completedWithErrors", "raisedBeforeNode", "raisedAfterNode"} =>
        /\ last.raised # "none"
        /\ ~last.completedLogged
        /\ (last.op = "onApplyButton" => last.errorDisplayed)

\* C8 (Spec): at most one GUI connection is active at any time, and connectGui is
\* never called while an earlier connection is still active.
C8_AtMostOneBinding ==
    /\ Cardinality(guiConnections) <= 1
    /\ last.connectsOverActive = 0

\* C8 witness: enter ran while a connection was active: it was disconnected and
\* one new connection made
C8_Witness ==
    /\ last.op = "enter" /\ last.disconnects = 1 /\ last.connects = 1
    /\ Cardinality(guiConnections) = 1

\* C9 (Spec): after the scene's clear-start has been handled no GUI connection is
\* active on the parameter node and the gate's ModifiedEvent observer is gone.
C9_ClearStartLeavesNoSubscription ==
    last.op = "onSceneStartClose" =>
        /\ guiConnections = {}
        /\ "ModifiedEvent" \notin observers

\* C9 witness: clear-start arrived while a connection was active and removed it
C9_Witness ==
    /\ last.op = "onSceneStartClose" /\ last.disconnects = 1
    /\ guiConnections = {} /\ "ModifiedEvent" \notin observers

\* C10 (Spec), as claimed: after view-exit and after clear-start the binding is
\* disconnected, the gate's observer removed and the widget holds no parameter
\* node; a slider edit made while no binding is connected writes no parameter.
C10_DetachDropsModel ==
    /\ last.op \in {"exit", "onSceneStartClose"} =>
           /\ guiConnections = {}
           /\ "ModifiedEvent" \notin observers
           /\ parameterNode = None
    /\ (last.op \in SliderControls /\ guiConnections = {}) => last.events = 0

\* C11 (Spec), as claimed: after cleanup(), from whatever lifecycle state, no GUI
\* connection made by the widget is still active and no observer registered by
\* the widget (on the parameter node or on the scene) remains.
C11_CleanupLeavesNoBindingNoObserver ==
    destroyed => (guiConnections = {} /\ observers = {})

Clamp(v) == IF v < RangeMin THEN RangeMin ELSE IF v > RangeMax THEN RangeMax ELSE v

\* binding attached: a parameter node is held and its GUI connection is active
Bound == parameterNode # None /\ parameterNodeGuiTag \in guiConnections

\* C12 (Spec), as claimed: after a slider handler has assigned v (lower slider, upper
\* slider, or the combined slider's v and v+100) the stored threshold equals
\* clamp(v, -100, 500); both thresholds always lie in [-100, 500] and no
\* assignment is rejected with an error.
C12_StoredEqualsClamp ==
    /\ WithinRange(pn.lowerThreshold) /\ WithinRange(pn.upperThreshold)
    /\ (last.op \in SliderControls /\ parameterNode # None) => last.raised = "none"
    /\ (last.op = "lowerThresholdSlider" /\ parameterNode # None) =>
           pn.lowerThreshold = Clamp(ui.lowerThresholdSlider)
    /\ (last.op = "upperThresholdSlider" /\ parameterNode # None) =>
           pn.upperThreshold = Clamp(ui.upperThresholdSlider)
    /\ (last.op = "thresholdSlider" /\ parameterNode # None) =>
           /\ pn.lowerThreshold = Clamp(ui.thresholdSlider)
           /\ pn.upperThreshold = Clamp(ui.thresholdSlider + SliderOffset)

\* C13 (Spec), as claimed: one combined-slider edit raises at most one ModifiedEvent
\* of the parameter node and the gate runs at most once, never between the two
\* writes.
C13_CombinedEditNotifiesOnce ==
    last.op = "thresholdSlider" => (last.events <= 1 /\ last.gateCalls <= 1)

C17_EditsAndAttachQuiesce ==
    /\ last.op \in {"lowerThresholdSlider", "upperThresholdSlider"} => last.events <= 1
    /\ last.op = "thresholdSlider" => last.events <= 2
    /\ last.op \in {"setup", "enter", "onSceneEndClose"} => last.events = 0
    /\ last.gateCalls <= last.events + 1

\* C17 witness: a lower-slider edit with the binding attached wrote the model once
\* and the push back into the slider raised nothing more
C17_Witness ==
    /\ last.op = "lowerThresholdSlider" /\ Bound
    /\ last.events = 1 /\ last.gateCalls = 1
    /\ ui.lowerThresholdSlider = pn.lowerThreshold

\* C19 (Spec), as claimed: every disconnectGui call of the widget passes the tag of
\* a connection that is active at that moment, never None and never a tag that
\* was already disconnected.
C19_DisconnectPassesActiveTag == last.staleDisconnects = 0

\* C20 (Spec), as claimed: after a combined-slider edit to v with a parameter node
\* held, either lowerThreshold = v and upperThreshold = v + 100, or nothing was
\* written (no threshold changed, so no ModifiedEvent was raised).
C20_CombinedEditAllOrNothing ==
    (last.op = "thresholdSlider" /\ parameterNode # None) =>
        \/ /\ pn.lowerThreshold = ui.thresholdSlider
           /\ pn.upperThreshold = ui.thresholdSlider + SliderOffset
        \/ last.events = 0

\* Attached: parameter node held, binding connected, gate observer registered
Attached ==
    /\ parameterNode # None
    /\ parameterNodeGuiTag \in guiConnections
    /\ "ModifiedEvent" \in observers

\* the transitions of the lifecycle: Attached after enter, Detached after exit
\* and after clear-start, after clear-end Attached exactly if the view is entered
LifecycleTransitions ==
    /\ last.op = "enter" => Attached
    /\ last.op \in {"exit", "onSceneStartClose"} => ~Attached
    /\ last.op = "onSceneEndClose" => (Attached <=> isEntered)

C15_ApplyDisabledWhileRunning == running => ~ui.applyEnabled

\* C18 (SpecTest), as claimed: the first process call of test_TresoldSeg1 reaches the
\* engine with lower = 100, upper = 100 and invert = true (mode Outside), the
\* second with lower = 100, upper = 100 and invert = false (mode Between).
C18_TestCallsReachEngineAsDescribed ==
    /\ (last.op = "test_TresoldSeg1:first" /\ last.request.sent) =>
           /\ last.request.LowerThreshold = 100
           /\ last.request.UpperThreshold = 100
           /\ last.args.invert
           /\ last.request.ThresholdType = "Outside"
    /\ (last.op = "test_TresoldSeg1:second" /\ last.request.sent) =>
           /\ last.request.LowerThreshold = 100
           /\ last.request.UpperThreshold = 100
           /\ ~last.args.invert
           /\ last.request.ThresholdType = "Between"

====
